---- MODULE Spec2Model ----
(***************************************************************************)
(* A model of lmath-rs's four-component vector, Vec4<T> (src/src/vec4.rs), *)
(* and of the capability traits it implements (src/src/vec.rs).            *)
(*                                                                         *)
(* A Vec4<T> is the struct { x, y, z, w }.  T ranges over the scalar kinds *)
(* of the GLSL aliases: bool (bvec4), i32 (ivec4), u32 (uvec4) and the     *)
(* floating kinds (vec4, dvec4).                                           *)
(*                                                                         *)
(* Scalars.                                                                *)
(*  - bool: a BOOLEAN.                                                     *)
(*  - i32, u32: a 32-bit word, written as the integer in                   *)
(*    -2^31 .. 2^31-1 that has the same two's-complement bit pattern (the  *)
(*    model checker's integers are themselves 32 bits wide, so the word    *)
(*    arithmetic is carried out on 16-bit halves and 8-bit limbs).  For    *)
(*    u32 the word w < 0 stands for the unsigned value w + 2^32.           *)
(*  - float: an IEEE-754 binary format with FloatPrec significand bits,    *)
(*    FloatExp + 1 binades, signed zeros, infinities, NaN and              *)
(*    round-to-nearest-even.  A finite float is [c |-> "fin", s, n]: sign  *)
(*    s and magnitude n counted in units of the smallest subnormal.        *)
(***************************************************************************)
EXTENDS Integers, Sequences, FiniteSets

\* ------------------------------------------------------------------ bounds

\* Indices 0 .. MaxIndex are tried; every index >= 4 is out of range.
MaxIndex == 4
\* The number of in-place operations applied to one vector in a run.
MaxOps == 2
\* The floating format: significand bits, binades above the subnormals,
\* and the fractional bits of 1.0 (1.0 is 2^FloatFrac units).
FloatPrec == 3
FloatExp == 3
FloatFrac == 2

\* ------------------------------------------------------- 32-bit integers

MaxInt == 2147483647
MinInt == -MaxInt - 1

Lo16(a) == a % 65536
Hi16(a) == (a \div 65536) % 65536

\* The word with the 16-bit halves hi and lo.
FromHalves(hi, lo) ==
    IF hi >= 32768 THEN (hi - 65536) * 65536 + lo ELSE hi * 65536 + lo

\* a + b modulo 2^32.
WAdd(a, b) ==
    LET lo == Lo16(a) + Lo16(b)
        hi == Hi16(a) + Hi16(b) + (lo \div 65536)
    IN  FromHalves(hi % 65536, lo % 65536)

\* a - b modulo 2^32.
WSub(a, b) ==
    LET lo == Lo16(a) - Lo16(b)
        borrow == IF lo < 0 THEN 1 ELSE 0
        hi == Hi16(a) - Hi16(b) - borrow
    IN  FromHalves(hi % 65536, lo % 65536)

\* -a modulo 2^32 (for u32 as for i32: the negation of the bit pattern).
WNeg(a) == WSub(0, a)

Byte(a, i) ==
    CASE i = 0 -> a % 256
      [] i = 1 -> (a \div 256) % 256
      [] i = 2 -> (a \div 65536) % 256
      [] i = 3 -> (a \div 16777216) % 256

\* a * b modulo 2^32: the schoolbook product of the 8-bit limbs, with the
\* columns above 2^32 dropped.
WMul(a, b) ==
    LET c0 == Byte(a, 0) * Byte(b, 0)
        c1 == Byte(a, 0) * Byte(b, 1) + Byte(a, 1) * Byte(b, 0)
        c2 == Byte(a, 0) * Byte(b, 2) + Byte(a, 1) * Byte(b, 1)
              + Byte(a, 2) * Byte(b, 0)
        c3 == Byte(a, 0) * Byte(b, 3) + Byte(a, 1) * Byte(b, 2)
              + Byte(a, 2) * Byte(b, 1) + Byte(a, 3) * Byte(b, 0)
        r0 == c0 % 256
        k1 == c1 + (c0 \div 256)
        r1 == k1 % 256
        k2 == c2 + (k1 \div 256)
        r2 == k2 % 256
        k3 == c3 + (k2 \div 256)
        r3 == k3 % 256
    IN  FromHalves(r3 * 256 + r2, r1 * 256 + r0)

\* 2^31 \div b for 1 < b <= MaxInt.
Pow31Div(b) == (MaxInt \div b) + (IF MaxInt % b = b - 1 THEN 1 ELSE 0)

\* The magnitude of a negative word other than MinInt, or of a positive one.
Mag(a) == IF a < 0 THEN 0 - a ELSE a

\* i32 division, truncating toward zero; b # 0 and not (a = MinInt, b = -1).
IDiv(a, b) ==
    CASE b = 1 -> a
      [] b = MinInt -> (IF a = MinInt THEN 1 ELSE 0)
      [] b # 1 /\ b # MinInt /\ a = MinInt ->
            (IF b > 0 THEN 0 - Pow31Div(b) ELSE Pow31Div(0 - b))
      [] OTHER ->
            (IF (a < 0) = (b < 0) THEN Mag(a) \div Mag(b)
                                  ELSE 0 - (Mag(a) \div Mag(b)))

\* The unsigned order of two words.
ULess(a, b) ==
    IF (a < 0) = (b < 0) THEN a < b ELSE b < 0

\* u32 division; b # 0.
UDiv(a, b) ==
    CASE b = 1 -> a
      [] b < 0 -> (IF ULess(a, b) THEN 0 ELSE 1)
      [] b > 1 /\ a >= 0 -> a \div b
      [] OTHER ->
            \* a stands for 2^31 + low, with low in 0 .. MaxInt
            LET low == a - MinInt
                qh == MaxInt \div b
                rh == (MaxInt % b) + 1
                ql == low \div b
                rl == low % b
                carry == IF rh >= b - rl THEN 1 ELSE 0
            IN  qh + ql + carry

\* --------------------------------------------------------------- floats

RECURSIVE Pow2(_)
Pow2(k) == IF k = 0 THEN 1 ELSE 2 * Pow2(k - 1)

\* 1.0 and the largest finite magnitude, in units of the smallest subnormal.
FOneN == Pow2(FloatFrac)
FMaxN == (Pow2(FloatPrec) - 1) * Pow2(FloatExp)

\* The spacing of the format at magnitude n.
RECURSIVE Ulp(_)
Ulp(n) == IF n < Pow2(FloatPrec) THEN 1 ELSE 2 * Ulp(n \div 2)

Mant(n) == n \div Ulp(n)

\* The finite magnitudes of the format.
FMags == {n \in 0 .. FMaxN : n % Ulp(n) = 0}

SetMax(S) == CHOOSE m \in S : \A o \in S : o <= m
SetMin(S) == CHOOSE m \in S : \A o \in S : m <= o

FInfMag == 0 - 1

\* The magnitude nearest to the exact value num / den (num >= 0, den > 0),
\* ties to the even significand; FInfMag when it rounds to infinity.
RoundMag(num, den) ==
    LET below == {n \in FMags : n * den <= num}
        above == {n \in FMags : n * den >= num}
        lo == SetMax(below)
        hi == IF above = {} THEN FMaxN + Ulp(FMaxN) ELSE SetMin(above)
        pick == IF lo = hi THEN lo
                ELSE IF 2 * num < (lo + hi) * den THEN lo
                ELSE IF 2 * num > (lo + hi) * den THEN hi
                ELSE IF Mant(lo) % 2 = 0 THEN lo ELSE hi
    IN  IF pick > FMaxN THEN FInfMag ELSE pick

FNaN == [c |-> "nan", s |-> 0, n |-> 0]
FInf(sign) == [c |-> "inf", s |-> sign, n |-> 0]
FFin(sign, mag) == [c |-> "fin", s |-> sign, n |-> mag]
FRound(sign, num, den) ==
    LET m == RoundMag(num, den)
    IN  IF m = FInfMag THEN FInf(sign) ELSE FFin(sign, m)

FSigned(a) == IF a.s = 1 THEN 0 - a.n ELSE a.n
FXor(s, t) == IF s = t THEN 0 ELSE 1

FNegF(a) == IF a.c = "nan" THEN a ELSE [a EXCEPT !.s = 1 - a.s]

FAdd(a, b) ==
    CASE a.c = "nan" \/ b.c = "nan" -> FNaN
      [] a.c = "inf" /\ b.c = "inf" -> (IF a.s = b.s THEN a ELSE FNaN)
      [] a.c = "inf" /\ b.c = "fin" -> a
      [] a.c = "fin" /\ b.c = "inf" -> b
      [] OTHER ->
            LET sum == FSigned(a) + FSigned(b)
            IN  IF sum = 0
                THEN FFin(IF a.s = 1 /\ b.s = 1 THEN 1 ELSE 0, 0)
                ELSE IF sum < 0 THEN FRound(1, 0 - sum, 1)
                ELSE FRound(0, sum, 1)

FSub(a, b) == FAdd(a, FNegF(b))

FMul(a, b) ==
    CASE a.c = "nan" \/ b.c = "nan" -> FNaN
      [] a.c = "inf" /\ b.c = "inf" -> FInf(FXor(a.s, b.s))
      [] a.c = "inf" /\ b.c = "fin" ->
            (IF b.n = 0 THEN FNaN ELSE FInf(FXor(a.s, b.s)))
      [] a.c = "fin" /\ b.c = "inf" ->
            (IF a.n = 0 THEN FNaN ELSE FInf(FXor(a.s, b.s)))
      [] OTHER -> FRound(FXor(a.s, b.s), a.n * b.n, FOneN)

FDiv(a, b) ==
    CASE a.c = "nan" \/ b.c = "nan" -> FNaN
      [] a.c = "inf" /\ b.c = "inf" -> FNaN
      [] a.c = "inf" /\ b.c = "fin" -> FInf(FXor(a.s, b.s))
      [] a.c = "fin" /\ b.c = "inf" -> FFin(FXor(a.s, b.s), 0)
      [] OTHER ->
            IF b.n = 0
            THEN (IF a.n = 0 THEN FNaN ELSE FInf(FXor(a.s, b.s)))
            ELSE FRound(FXor(a.s, b.s), a.n * FOneN, b.n)

\* The == of a floating scalar: NaN equals nothing, -0.0 equals 0.0.
FEq(a, b) ==
    CASE a.c = "nan" \/ b.c = "nan" -> FALSE
      [] a.c = "inf" \/ b.c = "inf" -> a.c = b.c /\ a.s = b.s
      [] OTHER -> (a.n = 0 /\ b.n = 0) \/ (a.s = b.s /\ a.n = b.n)

FIsFinite(a) == a.c = "fin"

\* abs of a floating scalar.
FAbs(a) == IF a.c = "nan" THEN a ELSE [a EXCEPT !.s = 0]

\* The place of a floating scalar that is not NaN on the number line, the
\* infinities beyond the finite values and -0.0 with 0.0.
FKey(a) ==
    IF a.c = "inf" THEN (IF a.s = 1 THEN 0 - (FMaxN + 1) ELSE FMaxN + 1)
    ELSE FSigned(a)

\* The < and <= of a floating scalar: false when either side is NaN.
FLt(a, b) == a.c # "nan" /\ b.c # "nan" /\ FKey(a) < FKey(b)
FLe(a, b) == a.c # "nan" /\ b.c # "nan" /\ FKey(a) <= FKey(b)

\* The magnitude nearest to the square root of the magnitude n, ties to
\* the even significand.  In units of the smallest subnormal the root of n
\* is the root of n * FOneN.
SqrtMag(n) ==
    LET sq == n * FOneN
        lo == SetMax({m \in FMags : m * m <= sq})
        hi == SetMin({m \in FMags : m * m >= sq})
    IN  IF lo = hi THEN lo
        ELSE IF 4 * sq < (lo + hi) * (lo + hi) THEN lo
        ELSE IF 4 * sq > (lo + hi) * (lo + hi) THEN hi
        ELSE IF Mant(lo) % 2 = 0 THEN lo ELSE hi

\* sqrt of a floating scalar: NaN below zero, -0.0 for -0.0.
FSqrt(a) ==
    CASE a.c = "nan" -> FNaN
      [] a.c = "inf" -> (IF a.s = 1 THEN FNaN ELSE a)
      [] OTHER ->
            IF a.n = 0 THEN a
            ELSE IF a.s = 1 THEN FNaN
            ELSE FFin(0, SqrtMag(a.n))


\* --------------------------------------------------------- scalar kinds

\* The scalar kinds T of the aliases bvec4, ivec4, uvec4 and vec4/dvec4.
Kinds == {"bool", "i32", "u32", "float"}

\* The kinds with T: Number, for which Vec4<T> is a NumericVector, a Neg,
\* a NumericVector4 and a MutableNumericVector.
NumberKinds == {"i32", "u32", "float"}

\* The kinds with T: Float, for which Vec4<T> is a EuclideanVector.
FloatKinds == {"float"}

\* A signed division MinInt / -1 overflows: LLVM leaves its result undefined,
\* and a build either wraps to MinInt or traps.  The other kinds have no
\* such case.
UBOutcomes(k) == IF k = "i32" THEN {"wrap", "trap"} ELSE {"none"}

Ok(val) == [ok |-> TRUE, val |-> val]
Fail == [ok |-> FALSE]

\* Number::zero() and Number::one().
zero_t(k) == IF k = "float" THEN FFin(0, 0) ELSE 0
one_t(k) == IF k = "float" THEN FFin(0, FOneN) ELSE 1

\* The scalar operators +, -, *, unary - and ==.
SAdd(k, a, b) == IF k = "float" THEN FAdd(a, b) ELSE WAdd(a, b)
SSub(k, a, b) == IF k = "float" THEN FSub(a, b) ELSE WSub(a, b)
SMul(k, a, b) == IF k = "float" THEN FMul(a, b) ELSE WMul(a, b)
SNeg(k, a) == IF k = "float" THEN FNegF(a) ELSE WNeg(a)
SEq(k, a, b) == IF k = "float" THEN FEq(a, b) ELSE a = b

\* The kinds with T: Ord, for which Vec4<T> is an OrdinalVector.
OrdKinds == {"i32", "u32", "float"}

\* The > and >= of a u32 and of a floating scalar.
UGreater(a, b) ==
    IF (a < 0) = (b < 0) THEN a > b ELSE a < 0
FGt(a, b) == a.c # "nan" /\ b.c # "nan" /\ FKey(a) > FKey(b)
FGe(a, b) == a.c # "nan" /\ b.c # "nan" /\ FKey(a) >= FKey(b)

\* The scalar operators <, <=, > and >=.
SLt(k, a, b) ==
    CASE k = "float" -> FLt(a, b)
      [] k = "u32" -> ULess(a, b)
      [] OTHER -> a < b
SLe(k, a, b) ==
    CASE k = "float" -> FLe(a, b)
      [] k = "u32" -> ULess(a, b) \/ a = b
      [] OTHER -> a <= b
SGt(k, a, b) ==
    CASE k = "float" -> FGt(a, b)
      [] k = "u32" -> UGreater(a, b)
      [] OTHER -> a > b
SGe(k, a, b) ==
    CASE k = "float" -> FGe(a, b)
      [] k = "u32" -> UGreater(a, b) \/ a = b
      [] OTHER -> a >= b

\* The scalar operator /: an integer division by zero fails the task, a
\* floating one follows IEEE-754.
SDiv(k, a, b, ub) ==
    CASE k = "float" -> Ok(FDiv(a, b))
      [] k = "u32" -> (IF b = 0 THEN Fail ELSE Ok(UDiv(a, b)))
      [] k = "i32" ->
            IF b = 0 THEN Fail
            ELSE IF a = MinInt /\ b = 0 - 1
                 THEN (IF ub = "trap" THEN Fail ELSE Ok(MinInt))
                 ELSE Ok(IDiv(a, b))

\* ------------------------------------------------------------- Vec4<T>

\* Vector4::new
new(x, y, z, w) == [x |-> x, y |-> y, z |-> z, w |-> w]

\* Vector::from_value
from_value(value) == new(value, value, value, value)

\* Vector::to_ptr: the address of the struct as a pointer to its first
\* component; the memory there holds x, y, z, w in declaration order.
to_ptr(v) == <<v.x, v.y, v.z, v.w>>

\* core::vec::raw::buf_as_slice: the len elements at p as a slice.
buf_as_slice(p, len) == SubSeq(p, 1, len)

\* index with a bounds check that is off by one.
index_short(v, i) ==
    LET slice == buf_as_slice(to_ptr(v), 4)
    IN  IF i < Len(slice) - 1 THEN Ok(slice[i + 1]) ELSE Fail

\* Index::index: slice[i] is bounds-checked against the slice's length.
index(v, i) ==
    LET slice == buf_as_slice(to_ptr(v), 4)
    IN  IF i < Len(slice) THEN Ok(slice[i + 1]) ELSE Fail

\* self[i] for an index that is in range.
At(v, i) == index(v, i).val

\* index_mut with an out-of-range index clamped to the last field.
index_mut_clamped(i) ==
    CASE i = 0 -> [ok |-> TRUE, ref |-> "x"]
      [] i = 1 -> [ok |-> TRUE, ref |-> "y"]
      [] i = 2 -> [ok |-> TRUE, ref |-> "z"]
      [] OTHER -> [ok |-> TRUE, ref |-> "w"]

\* MutableVector::index_mut: a reference to a field, or a failure.
index_mut(i) ==
    CASE i = 0 -> [ok |-> TRUE, ref |-> "x"]
      [] i = 1 -> [ok |-> TRUE, ref |-> "y"]
      [] i = 2 -> [ok |-> TRUE, ref |-> "z"]
      [] i = 3 -> [ok |-> TRUE, ref |-> "w"]
      [] OTHER -> Fail

\* A read and a write through a reference into v.
Load(v, ref) == v[ref]
Store(v, ref, val) == [v EXCEPT ![ref] = val]

\* A swap that keeps no temporary: y receives the value x was given.
util_swap_no_tmp(v, x, y) ==
    LET v1 == Store(v, x, Load(v, y))
    IN  Store(v1, y, Load(v1, x))

\* core::util::swap(x, y) on two references into v (x and y may be the same).
util_swap(v, x, y) ==
    LET tmp == Load(v, x)
        v1 == Store(v, x, Load(v, y))
    IN  Store(v1, y, tmp)

\* The outcome of an in-place operation: the vector as it is left, and
\* whether the operation completed.
Done(v) == [ok |-> TRUE, v |-> v]
Failed(v) == [ok |-> FALSE, v |-> v]

\* MutableVector::swap: both references are taken before the exchange.
swap(v, a, b) ==
    LET ra == index_mut(a)
        rb == index_mut(b)
    IN  IF ~ra.ok \/ ~rb.ok THEN Failed(v)
        ELSE Done(util_swap(v, ra.ref, rb.ref))

\* ------------------------------------------------------ NumericVector

identity(k) == new(one_t(k), one_t(k), one_t(k), one_t(k))

zero(k) == new(zero_t(k), zero_t(k), zero_t(k), zero_t(k))

\* is_zero with the test of the last component left out.
is_zero_xyz(k, v) ==
    /\ SEq(k, At(v, 0), zero_t(k))
    /\ SEq(k, At(v, 1), zero_t(k))
    /\ SEq(k, At(v, 2), zero_t(k))

is_zero(k, v) ==
    /\ SEq(k, At(v, 0), zero_t(k))
    /\ SEq(k, At(v, 1), zero_t(k))
    /\ SEq(k, At(v, 2), zero_t(k))
    /\ SEq(k, At(v, 3), zero_t(k))

mul_t(k, v, value) ==
    new(SMul(k, At(v, 0), value),
        SMul(k, At(v, 1), value),
        SMul(k, At(v, 2), value),
        SMul(k, At(v, 3), value))

\* The vector of four scalar results, or a failure if one of them failed.
new_checked(r0, r1, r2, r3) ==
    IF r0.ok /\ r1.ok /\ r2.ok /\ r3.ok
    THEN Ok(new(r0.val, r1.val, r2.val, r3.val))
    ELSE Fail

div_t(k, v, value, ub) ==
    new_checked(SDiv(k, At(v, 0), value, ub),
                SDiv(k, At(v, 1), value, ub),
                SDiv(k, At(v, 2), value, ub),
                SDiv(k, At(v, 3), value, ub))

\* add_v with self[1] written where other[1] is meant.
add_v_typo(k, v, other) ==
    new(SAdd(k, At(v, 0), At(other, 0)),
        SAdd(k, At(v, 1), At(v, 1)),
        SAdd(k, At(v, 2), At(other, 2)),
        SAdd(k, At(v, 3), At(other, 3)))

add_v(k, v, other) ==
    new(SAdd(k, At(v, 0), At(other, 0)),
        SAdd(k, At(v, 1), At(other, 1)),
        SAdd(k, At(v, 2), At(other, 2)),
        SAdd(k, At(v, 3), At(other, 3)))

sub_v(k, v, other) ==
    new(SSub(k, At(v, 0), At(other, 0)),
        SSub(k, At(v, 1), At(other, 1)),
        SSub(k, At(v, 2), At(other, 2)),
        SSub(k, At(v, 3), At(other, 3)))

mul_v(k, v, other) ==
    new(SMul(k, At(v, 0), At(other, 0)),
        SMul(k, At(v, 1), At(other, 1)),
        SMul(k, At(v, 2), At(other, 2)),
        SMul(k, At(v, 3), At(other, 3)))

div_v(k, v, other, ub) ==
    new_checked(SDiv(k, At(v, 0), At(other, 0), ub),
                SDiv(k, At(v, 1), At(other, 1), ub),
                SDiv(k, At(v, 2), At(other, 2), ub),
                SDiv(k, At(v, 3), At(other, 3), ub))

\* dot with the last product left out.
dot_xyz(k, v, other) ==
    SAdd(k,
         SAdd(k, SMul(k, At(v, 0), At(other, 0)),
                 SMul(k, At(v, 1), At(other, 1))),
         SMul(k, At(v, 2), At(other, 2)))

dot(k, v, other) ==
    SAdd(k,
         SAdd(k,
              SAdd(k, SMul(k, At(v, 0), At(other, 0)),
                      SMul(k, At(v, 1), At(other, 1))),
              SMul(k, At(v, 2), At(other, 2))),
         SMul(k, At(v, 3), At(other, 3)))

\* neg with the last component passed through.
neg_xyz(k, v) ==
    new(SNeg(k, At(v, 0)), SNeg(k, At(v, 1)), SNeg(k, At(v, 2)), At(v, 3))

\* Neg::neg
neg(k, v) ==
    new(SNeg(k, At(v, 0)), SNeg(k, At(v, 1)),
        SNeg(k, At(v, 2)), SNeg(k, At(v, 3)))

\* ----------------------------------------------------- NumericVector4

unit_x(k) == new(one_t(k), zero_t(k), zero_t(k), zero_t(k))
unit_y(k) == new(zero_t(k), one_t(k), zero_t(k), zero_t(k))
unit_z(k) == new(zero_t(k), zero_t(k), one_t(k), zero_t(k))
unit_w(k) == new(zero_t(k), zero_t(k), zero_t(k), one_t(k))


\* ----------------------------------------------- MutableNumericVector

\* One statement of an in-place operation, *self.index_mut(i) op= rhs,
\* after the statements that led to st: nothing more happens once the task
\* has failed, and a failing scalar operation stores nothing.
NegAssign(k, st, i) ==
    IF ~st.ok THEN st
    ELSE LET ref == index_mut(i).ref
         IN  Done(Store(st.v, ref, SNeg(k, Load(st.v, ref))))

MulAssign(k, st, i, rhs) ==
    IF ~st.ok THEN st
    ELSE LET ref == index_mut(i).ref
         IN  Done(Store(st.v, ref, SMul(k, Load(st.v, ref), rhs)))

DivAssign(k, st, i, rhs, ub) ==
    IF ~st.ok THEN st
    ELSE LET ref == index_mut(i).ref
             q == SDiv(k, Load(st.v, ref), rhs, ub)
         IN  IF q.ok THEN Done(Store(st.v, ref, q.val)) ELSE Failed(st.v)

AddAssign(k, st, i, rhs) ==
    IF ~st.ok THEN st
    ELSE LET ref == index_mut(i).ref
         IN  Done(Store(st.v, ref, SAdd(k, Load(st.v, ref), rhs)))

SubAssign(k, st, i, rhs) ==
    IF ~st.ok THEN st
    ELSE LET ref == index_mut(i).ref
         IN  Done(Store(st.v, ref, SSub(k, Load(st.v, ref), rhs)))

neg_self(k, v) ==
    LET s0 == NegAssign(k, Done(v), 0)
        s1 == NegAssign(k, s0, 1)
        s2 == NegAssign(k, s1, 2)
    IN  NegAssign(k, s2, 3)

mul_self_t(k, v, value) ==
    LET s0 == MulAssign(k, Done(v), 0, value)
        s1 == MulAssign(k, s0, 1, value)
        s2 == MulAssign(k, s1, 2, value)
    IN  MulAssign(k, s2, 3, value)

div_self_t(k, v, value, ub) ==
    LET s0 == DivAssign(k, Done(v), 0, value, ub)
        s1 == DivAssign(k, s0, 1, value, ub)
        s2 == DivAssign(k, s1, 2, value, ub)
    IN  DivAssign(k, s2, 3, value, ub)

\* add_self_v with its last statement left out.
add_self_v_short(k, v, other) ==
    LET s0 == AddAssign(k, Done(v), 0, At(other, 0))
        s1 == AddAssign(k, s0, 1, At(other, 1))
    IN  AddAssign(k, s1, 2, At(other, 2))

add_self_v(k, v, other) ==
    LET s0 == AddAssign(k, Done(v), 0, At(other, 0))
        s1 == AddAssign(k, s0, 1, At(other, 1))
        s2 == AddAssign(k, s1, 2, At(other, 2))
    IN  AddAssign(k, s2, 3, At(other, 3))

sub_self_v(k, v, other) ==
    LET s0 == SubAssign(k, Done(v), 0, At(other, 0))
        s1 == SubAssign(k, s0, 1, At(other, 1))
        s2 == SubAssign(k, s1, 2, At(other, 2))
    IN  SubAssign(k, s2, 3, At(other, 3))

mul_self_v(k, v, other) ==
    LET s0 == MulAssign(k, Done(v), 0, At(other, 0))
        s1 == MulAssign(k, s0, 1, At(other, 1))
        s2 == MulAssign(k, s1, 2, At(other, 2))
    IN  MulAssign(k, s2, 3, At(other, 3))

div_self_v(k, v, other, ub) ==
    LET s0 == DivAssign(k, Done(v), 0, At(other, 0), ub)
        s1 == DivAssign(k, s0, 1, At(other, 1), ub)
        s2 == DivAssign(k, s1, 2, At(other, 2), ub)
    IN  DivAssign(k, s2, 3, At(other, 3), ub)

\* ----------------------------------------------------- EuclideanVector

\* lerp that scales other itself instead of the difference other - self.
lerp_no_diff(k, v, other, amount) ==
    add_v(k, v, mul_t(k, other, amount))

lerp(k, v, other, amount) ==
    add_v(k, v, mul_t(k, sub_v(k, other, v), amount))

\* ------------------------------- EuclideanVector, the in-place mirror

length2(k, v) == dot(k, v, v)

length(k, v) == FSqrt(length2(k, v))

normalize(k, v) == mul_t(k, v, FDiv(one_t(k), length(k, v)))

normalize_to(k, v, len) == mul_t(k, v, FDiv(len, length(k, v)))

\* A normalisation that takes the length again once the first component
\* has been scaled.
normalize_self_relen(k, v) ==
    LET s0 == MulAssign(k, Done(v), 0, FDiv(one_t(k), length(k, v)))
        n == FDiv(one_t(k), length(k, s0.v))
        s1 == MulAssign(k, s0, 1, n)
        s2 == MulAssign(k, s1, 2, n)
    IN  MulAssign(k, s2, 3, n)

normalize_self(k, v) ==
    LET n == FDiv(one_t(k), length(k, v))
    IN  mul_self_t(k, v, n)

normalize_self_to(k, v, len) ==
    LET n == FDiv(len, length(k, v))
    IN  mul_self_t(k, v, n)

lerp_self(k, v, other, amount) ==
    add_self_v(k, v, mul_t(k, sub_v(k, other, v), amount))

\* ------------------------------------------------------ OrdinalVector

\* A comparison whose last component reads the wrong component of other.
less_than_typo(k, v, other) ==
    new(SLt(k, At(v, 0), At(other, 0)),
        SLt(k, At(v, 1), At(other, 1)),
        SLt(k, At(v, 2), At(other, 2)),
        SLt(k, At(v, 3), At(other, 2)))

less_than(k, v, other) ==
    new(SLt(k, At(v, 0), At(other, 0)),
        SLt(k, At(v, 1), At(other, 1)),
        SLt(k, At(v, 2), At(other, 2)),
        SLt(k, At(v, 3), At(other, 3)))

less_than_equal(k, v, other) ==
    new(SLe(k, At(v, 0), At(other, 0)),
        SLe(k, At(v, 1), At(other, 1)),
        SLe(k, At(v, 2), At(other, 2)),
        SLe(k, At(v, 3), At(other, 3)))

greater_than(k, v, other) ==
    new(SGt(k, At(v, 0), At(other, 0)),
        SGt(k, At(v, 1), At(other, 1)),
        SGt(k, At(v, 2), At(other, 2)),
        SGt(k, At(v, 3), At(other, 3)))

greater_than_equal(k, v, other) ==
    new(SGe(k, At(v, 0), At(other, 0)),
        SGe(k, At(v, 1), At(other, 1)),
        SGe(k, At(v, 2), At(other, 2)),
        SGe(k, At(v, 3), At(other, 3)))

\* ------------------------------------- Eq, EquableVector, BooleanVector

\* An equality that leaves the last field out.
eq_xyz(k, a, b) ==
    /\ SEq(k, a.x, b.x)
    /\ SEq(k, a.y, b.y)
    /\ SEq(k, a.z, b.z)

\* The derived Eq of the struct: the fields compared in turn with ==.
eq(k, a, b) ==
    /\ SEq(k, a.x, b.x)
    /\ SEq(k, a.y, b.y)
    /\ SEq(k, a.z, b.z)
    /\ SEq(k, a.w, b.w)

equal(k, v, other) ==
    new(SEq(k, At(v, 0), At(other, 0)),
        SEq(k, At(v, 1), At(other, 1)),
        SEq(k, At(v, 2), At(other, 2)),
        SEq(k, At(v, 3), At(other, 3)))

not_equal(k, v, other) ==
    new(~SEq(k, At(v, 0), At(other, 0)),
        ~SEq(k, At(v, 1), At(other, 1)),
        ~SEq(k, At(v, 2), At(other, 2)),
        ~SEq(k, At(v, 3), At(other, 3)))

\* A reduction that leaves the last component out.
any_xyz(v) == At(v, 0) \/ At(v, 1) \/ At(v, 2)

any(v) == At(v, 0) \/ At(v, 1) \/ At(v, 2) \/ At(v, 3)

all(v) == At(v, 0) /\ At(v, 1) /\ At(v, 2) /\ At(v, 3)

not(v) == new(~At(v, 0), ~At(v, 1), ~At(v, 2), ~At(v, 3))

\* ------------------------------------------------------------ FuzzyEq

\* The default tolerance of the scalar's fuzzy comparison, 1.0e-6 as
\* Number::from converts it: a positive value far below one, in this format
\* the smallest positive one.
FUZZY_EPSILON == FFin(0, 1)

\* The fuzzy comparison of two floating scalars: the distance between them
\* is below epsilon.
scalar_fuzzy_eq_eps(a, b, epsilon) == FLt(FAbs(FSub(a, b)), epsilon)

\* A fuzzy comparison that leaves the last component out.
fuzzy_eq_eps_xyz(v, other, epsilon) ==
    /\ scalar_fuzzy_eq_eps(At(v, 0), At(other, 0), epsilon)
    /\ scalar_fuzzy_eq_eps(At(v, 1), At(other, 1), epsilon)
    /\ scalar_fuzzy_eq_eps(At(v, 2), At(other, 2), epsilon)

fuzzy_eq_eps(v, other, epsilon) ==
    /\ scalar_fuzzy_eq_eps(At(v, 0), At(other, 0), epsilon)
    /\ scalar_fuzzy_eq_eps(At(v, 1), At(other, 1), epsilon)
    /\ scalar_fuzzy_eq_eps(At(v, 2), At(other, 2), epsilon)
    /\ scalar_fuzzy_eq_eps(At(v, 3), At(other, 3), epsilon)

fuzzy_eq(v, other) == fuzzy_eq_eps(v, other, FUZZY_EPSILON)


\* ------------------------------------------------------------- inputs

FMinSub == FFin(0, 1)
FOne == FFin(0, FOneN)
FHalf == FFin(0, FOneN \div 2)
FMax == FFin(0, FMaxN)

\* The component values the vectors of a run are built from.
CompVals(k) ==
    CASE k = "bool" -> {TRUE, FALSE}
      [] k = "i32" -> {MinInt, 0 - 1, 0, 1, 2}
      [] k = "u32" -> {MinInt, 0 - 1, 0, 1, 2}
      [] k = "float" -> {FFin(1, 0), FMinSub, FFin(1, FOneN), FMax, FInf(0), FNaN}

AllVecs(k) ==
    {new(x, y, z, w) : x \in CompVals(k), y \in CompVals(k),
                       z \in CompVals(k), w \in CompVals(k)}

\* The vectors an in-place run starts from.
SelfVecs(k) ==
    CASE k = "bool" -> {new(TRUE, FALSE, FALSE, TRUE)}
      [] k = "i32" -> {new(MinInt, 0 - 1, 2, 3)}
      [] k = "u32" -> {new(MinInt, 0 - 1, 2, 3)}
      [] k = "float" -> {new(FFin(1, 0), FOne, FMax, FMinSub),
                         new(FInf(0), FNaN, FFin(1, FOneN), FHalf)}

\* The floating vectors a run of the Euclidean in-place operations starts
\* from: of finite length, of zero length, of a length that overflows, and
\* with an infinite and a NaN component.
EuclidVecs ==
    {new(FOne, FOne, FOne, FFin(0, 0)),
     new(FHalf, FFin(1, FOneN), FMinSub, FOne),
     new(FFin(0, 0), FFin(1, 0), FFin(0, 0), FFin(0, 0)),
     new(FMinSub, FFin(0, 0), FMinSub, FFin(0, 0)),
     new(FFin(1, 0), FOne, FMax, FMinSub),
     new(FInf(0), FNaN, FFin(1, FOneN), FHalf)}

\* The vectors passed as `other`.
ArgVecs(k) ==
    CASE k = "bool" -> {new(TRUE, TRUE, FALSE, FALSE), new(TRUE, FALSE, FALSE, TRUE)}
      [] k = "i32" -> {new(0 - 1, 2, MinInt, 1), new(1, 0, 3, MaxInt),
                       new(2, 2, 2, 0)}
      [] k = "u32" -> {new(0 - 1, 2, MinInt, 1), new(1, 0, 3, MaxInt),
                       new(2, 2, 2, 0)}
      [] k = "float" -> {new(FFin(0, 0), FMinSub, FFin(1, FOneN), FMax),
                         new(FMinSub, FMax, FFin(1, FMaxN), FOne),
                         new(FInf(1), FOne, FNaN, FMinSub)}

\* The scalars passed as `value` or `amount`.
ArgScalars(k) ==
    CASE k = "bool" -> {TRUE, FALSE}
      [] k = "i32" -> {0, 0 - 1, 2}
      [] k = "u32" -> {0, 0 - 1, 2}
      [] k = "float" -> {FFin(0, 0), FOne, FFin(1, 2 * FOneN)}

\* The scalars written through index_mut.
WriteVals(k) ==
    CASE k = "bool" -> {TRUE, FALSE}
      [] k = "i32" -> {0, MaxInt}
      [] k = "u32" -> {0, MaxInt}
      [] k = "float" -> {FHalf, FNaN}

\* -------------------------------------------------------------- state

VARIABLES
    kind,   \* the scalar kind T of the vector
    self,   \* the vector the operations are applied to
    prev,   \* self as it was before the last operation
    op,     \* the last operation
    arg,    \* its arguments
    out,    \* its outcome: ok, and the value it returned if it returns one
    nops,   \* the number of in-place operations applied so far
    base    \* self as it was after the last operation other than a swap

vars == <<kind, self, prev, op, arg, out, nops, base>>

\* A failed task runs no further operation.
Alive == out.ok

Start(vecs) ==
    /\ self \in vecs
    /\ prev = self
    /\ op = "new"
    /\ arg = <<>>
    /\ out = [ok |-> TRUE]
    /\ nops = 0
    /\ base = self

\* The last operation was name(args), an in-place operation that left r.
InPlace(name, args, r) ==
    /\ Alive
    /\ nops < MaxOps
    /\ op' = name
    /\ arg' = args
    /\ prev' = self
    /\ self' = r.v
    /\ out' = [ok |-> r.ok]
    /\ nops' = nops + 1
    /\ base' = IF name = "swap" THEN base ELSE r.v
    /\ UNCHANGED kind

\* The last operation was name(args), which returned r and left self alone.
Value(name, args, r) ==
    /\ Alive
    /\ op' = name
    /\ arg' = args
    /\ prev' = self
    /\ out' = r
    /\ UNCHANGED <<kind, self, nops, base>>

\* A value-returning operation is a function of its arguments alone: a run
\* of the value-returning operations applies one to the inputs it drew.
Pure(name, args, r) ==
    /\ op = "new"
    /\ Value(name, args, r)

\* ------------------------------------------------- in-place operations

Init ==
    /\ kind \in Kinds
    /\ Start(SelfVecs(kind))

\* *self.index_mut(i) = value
IndexMut ==
    \E i \in 0 .. MaxIndex, value \in WriteVals(kind) :
        LET r == index_mut(i)
        IN  InPlace("index_mut", <<i, value>>,
                    IF r.ok THEN Done(Store(self, r.ref, value))
                            ELSE Failed(self))

Swap ==
    \E a \in 0 .. MaxIndex, b \in 0 .. MaxIndex :
        InPlace("swap", <<a, b>>, swap(self, a, b))

NegSelf ==
    /\ kind \in NumberKinds
    /\ InPlace("neg_self", <<>>, neg_self(kind, self))

MulSelfT ==
    /\ kind \in NumberKinds
    /\ \E value \in ArgScalars(kind) :
        InPlace("mul_self_t", <<value>>, mul_self_t(kind, self, value))

DivSelfT ==
    /\ kind \in NumberKinds
    /\ \E value \in ArgScalars(kind), ub \in UBOutcomes(kind) :
        InPlace("div_self_t", <<value, ub>>, div_self_t(kind, self, value, ub))

AddSelfV ==
    /\ kind \in NumberKinds
    /\ \E other \in ArgVecs(kind) :
        InPlace("add_self_v", <<other>>, add_self_v(kind, self, other))

SubSelfV ==
    /\ kind \in NumberKinds
    /\ \E other \in ArgVecs(kind) :
        InPlace("sub_self_v", <<other>>, sub_self_v(kind, self, other))

MulSelfV ==
    /\ kind \in NumberKinds
    /\ \E other \in ArgVecs(kind) :
        InPlace("mul_self_v", <<other>>, mul_self_v(kind, self, other))

DivSelfV ==
    /\ kind \in NumberKinds
    /\ \E other \in ArgVecs(kind), ub \in UBOutcomes(kind) :
        InPlace("div_self_v", <<other, ub>>, div_self_v(kind, self, other, ub))

\* self[i], read between the in-place operations
Index ==
    /\ nops < MaxOps
    /\ \E i \in 0 .. MaxIndex :
        Value("index", <<i>>, index(self, i))

\* -self, computed between the in-place operations
Neg ==
    /\ kind \in NumberKinds
    /\ nops < MaxOps
    /\ Value("neg", <<>>, Ok(neg(kind, self)))

Next ==
    \/ DivSelfV
    \/ DivSelfT
    \/ IndexMut
    \/ Swap
    \/ NegSelf
    \/ MulSelfT
    \/ AddSelfV
    \/ SubSelfV
    \/ MulSelfV
    \/ Index
    \/ Neg

Spec == Init /\ [][Next]_vars

\* --------------------------------------- Euclidean in-place operations

InitEuclid ==
    /\ kind \in FloatKinds
    /\ Start(EuclidVecs)

NormalizeSelf ==
    /\ kind \in FloatKinds
    /\ InPlace("normalize_self", <<>>, normalize_self(kind, self))

NormalizeSelfTo ==
    /\ kind \in FloatKinds
    /\ \E len \in ArgScalars(kind) :
        InPlace("normalize_self_to", <<len>>, normalize_self_to(kind, self, len))

LerpSelf ==
    /\ kind \in FloatKinds
    /\ \E other \in ArgVecs(kind), amount \in ArgScalars(kind) :
        InPlace("lerp_self", <<other, amount>>,
                lerp_self(kind, self, other, amount))

NextEuclid ==
    \/ NormalizeSelf
    \/ NormalizeSelfTo
    \/ LerpSelf

SpecEuclid == InitEuclid /\ [][NextEuclid]_vars

\* ------------------------------------------ value-returning operations

InitValue ==
    /\ kind \in Kinds
    /\ Start(AllVecs(kind))

FromValue ==
    \E value \in CompVals(kind) :
        Pure("from_value", <<value>>, Ok(from_value(value)))

Zero ==
    /\ kind \in NumberKinds
    /\ Pure("zero", <<>>, Ok(zero(kind)))

Identity ==
    /\ kind \in NumberKinds
    /\ Pure("identity", <<>>, Ok(identity(kind)))

IsZero ==
    /\ kind \in NumberKinds
    /\ Pure("is_zero", <<>>, Ok(is_zero(kind, self)))

MulT ==
    /\ kind \in NumberKinds
    /\ \E value \in ArgScalars(kind) :
        Pure("mul_t", <<value>>, Ok(mul_t(kind, self, value)))

DivT ==
    /\ kind \in NumberKinds
    /\ \E value \in ArgScalars(kind), ub \in UBOutcomes(kind) :
        Pure("div_t", <<value, ub>>, div_t(kind, self, value, ub))

AddV ==
    /\ kind \in NumberKinds
    /\ \E other \in ArgVecs(kind) :
        Pure("add_v", <<other>>, Ok(add_v(kind, self, other)))

SubV ==
    /\ kind \in NumberKinds
    /\ \E other \in ArgVecs(kind) :
        Pure("sub_v", <<other>>, Ok(sub_v(kind, self, other)))

MulV ==
    /\ kind \in NumberKinds
    /\ \E other \in ArgVecs(kind) :
        Pure("mul_v", <<other>>, Ok(mul_v(kind, self, other)))

DivV ==
    /\ kind \in NumberKinds
    /\ \E other \in ArgVecs(kind), ub \in UBOutcomes(kind) :
        Pure("div_v", <<other, ub>>, div_v(kind, self, other, ub))

Dot ==
    /\ kind \in NumberKinds
    /\ \E other \in ArgVecs(kind) :
        Pure("dot", <<other>>, Ok(dot(kind, self, other)))

UnitX ==
    /\ kind \in NumberKinds
    /\ Pure("unit_x", <<>>, Ok(unit_x(kind)))

UnitY ==
    /\ kind \in NumberKinds
    /\ Pure("unit_y", <<>>, Ok(unit_y(kind)))

UnitZ ==
    /\ kind \in NumberKinds
    /\ Pure("unit_z", <<>>, Ok(unit_z(kind)))

UnitW ==
    /\ kind \in NumberKinds
    /\ Pure("unit_w", <<>>, Ok(unit_w(kind)))

Lerp ==
    /\ kind \in FloatKinds
    /\ \E other \in ArgVecs(kind), amount \in ArgScalars(kind) :
        Pure("lerp", <<other, amount>>, Ok(lerp(kind, self, other, amount)))

\* self == other
Eq ==
    \E other \in ArgVecs(kind) \cup {self} :
        Pure("eq", <<other>>, Ok(eq(kind, self, other)))

Equal ==
    \E other \in ArgVecs(kind) \cup {self} :
        Pure("equal", <<other>>, Ok(equal(kind, self, other)))

NotEqual ==
    \E other \in ArgVecs(kind) \cup {self} :
        Pure("not_equal", <<other>>, Ok(not_equal(kind, self, other)))

Any ==
    /\ kind = "bool"
    /\ Pure("any", <<>>, Ok(any(self)))

All ==
    /\ kind = "bool"
    /\ Pure("all", <<>>, Ok(all(self)))

Not ==
    /\ kind = "bool"
    /\ Pure("not", <<>>, Ok(not(self)))

LessThan ==
    /\ kind \in OrdKinds
    /\ \E other \in ArgVecs(kind) \cup {self} :
        Pure("less_than", <<other>>, Ok(less_than(kind, self, other)))

LessThanEqual ==
    /\ kind \in OrdKinds
    /\ \E other \in ArgVecs(kind) \cup {self} :
        Pure("less_than_equal", <<other>>, Ok(less_than_equal(kind, self, other)))

GreaterThan ==
    /\ kind \in OrdKinds
    /\ \E other \in ArgVecs(kind) \cup {self} :
        Pure("greater_than", <<other>>, Ok(greater_than(kind, self, other)))

GreaterThanEqual ==
    /\ kind \in OrdKinds
    /\ \E other \in ArgVecs(kind) \cup {self} :
        Pure("greater_than_equal", <<other>>,
             Ok(greater_than_equal(kind, self, other)))

FuzzyEq ==
    /\ kind \in FloatKinds
    /\ \E other \in ArgVecs(kind) \cup {self} :
        Pure("fuzzy_eq", <<other>>, Ok(fuzzy_eq(self, other)))

FuzzyEqEps ==
    /\ kind \in FloatKinds
    /\ \E other \in ArgVecs(kind) \cup {self}, epsilon \in ArgScalars(kind) :
        Pure("fuzzy_eq_eps", <<other, epsilon>>,
             Ok(fuzzy_eq_eps(self, other, epsilon)))

NextValue ==
    \/ FromValue
    \/ Lerp
    \/ Zero
    \/ Identity
    \/ IsZero
    \/ MulT
    \/ DivT
    \/ AddV
    \/ SubV
    \/ MulV
    \/ DivV
    \/ Dot
    \/ UnitX
    \/ UnitY
    \/ UnitZ
    \/ UnitW
    \/ Eq
    \/ Equal
    \/ NotEqual
    \/ Any
    \/ All
    \/ Not
    \/ FuzzyEq
    \/ FuzzyEqEps
    \/ LessThan
    \/ LessThanEqual
    \/ GreaterThan
    \/ GreaterThanEqual

SpecValue == InitValue /\ [][NextValue]_vars


\* ============================================================== claims

IntKinds == {"i32", "u32"}

\* The component of v at position i of the order x, y, z, w.
Component(v, i) ==
    CASE i = 0 -> v.x
      [] i = 1 -> v.y
      [] i = 2 -> v.z
      [] i = 3 -> v.w

\* C1: over an integer kind, an in-place numeric operation that completes
\* leaves self equal to what the matching value-returning operation returns
\* for the vector it started from: neg_self/neg, mul_self_t/mul_t,
\* div_self_t/div_t, add_self_v/add_v, sub_self_v/sub_v, mul_self_v/mul_v,
\* div_self_v/div_v.  With a non-zero divisor (no zero component in the
\* divisor vector) and wrapping arithmetic the division completes; where the
\* build traps on MinInt / -1 the two forms fail together.
InPlaceEqualsValue ==
    kind \in IntKinds =>
        /\ op = "neg_self" => out.ok /\ self = neg(kind, prev)
        /\ op = "mul_self_t" => out.ok /\ self = mul_t(kind, prev, arg[1])
        /\ op = "add_self_v" => out.ok /\ self = add_v(kind, prev, arg[1])
        /\ op = "sub_self_v" => out.ok /\ self = sub_v(kind, prev, arg[1])
        /\ op = "mul_self_v" => out.ok /\ self = mul_v(kind, prev, arg[1])
        /\ op = "div_self_t" /\ arg[1] # 0 =>
              LET r == div_t(kind, prev, arg[1], arg[2])
              IN  /\ out.ok = r.ok
                  /\ arg[2] # "trap" => out.ok
                  /\ out.ok => self = r.val
        /\ op = "div_self_v" /\ (\A i \in 0 .. 3 : At(arg[1], i) # 0) =>
              LET r == div_v(kind, prev, arg[1], arg[2])
              IN  /\ out.ok = r.ok
                  /\ arg[2] # "trap" => out.ok
                  /\ out.ok => self = r.val

\* An integer vector divided in place, component by component, by a vector
\* without a zero component, and changed by it.
InPlaceEqualsValueWitness ==
    /\ kind = "i32"
    /\ op = "div_self_v"
    /\ \A i \in 0 .. 3 : At(arg[1], i) # 0
    /\ out.ok
    /\ self # prev

\* C2: the index read [i] and index_mut(i) resolve to the same component,
\* in the order x, y, z, w, for i in 0 .. 3: a read returns that component
\* and a write through index_mut(i) is what the read at i then returns, the
\* other components being left alone.  Both fail for every i >= 4, and the
\* failed call leaves the vector as it was.
IndexInOrderOrFails ==
    /\ \A i \in 0 .. 3 :
          /\ index_mut(i).ok
          /\ index(self, i) = Ok(Load(self, index_mut(i).ref))
          /\ index(self, i) = Ok(Component(self, i))
    /\ op = "index" =>
          /\ out.ok = (arg[1] < 4)
          /\ out.ok => out.val = Component(self, arg[1])
          /\ self = prev
    /\ op = "index_mut" =>
          /\ out.ok = (arg[1] < 4)
          /\ ~out.ok => self = prev
          /\ out.ok =>
                /\ index(self, arg[1]) = Ok(arg[2])
                /\ \A j \in 0 .. 3 :
                      j # arg[1] => Component(self, j) = Component(prev, j)

\* A write through index_mut at an index past the end, which failed.
IndexInOrderOrFailsWitness ==
    /\ op = "index_mut"
    /\ arg[1] >= 4
    /\ ~out.ok
    /\ nops = 2

\* The permutations of the positions 0 .. 3.
Perms == {p \in [0 .. 3 -> 0 .. 3] : \A i, j \in 0 .. 3 : p[i] = p[j] => i = j}

\* C3: swap(a, b) with a, b in 0 .. 3 exchanges the components at a and b
\* and leaves the others alone; with a = b it changes nothing and does not
\* fail; with a or b >= 4 it fails and changes nothing.  Swapping a and b
\* again restores the vector, and after any number of swaps the vector is a
\* permutation of the components it had before them.
SwapExchanges ==
    /\ \E p \in Perms : \A i \in 0 .. 3 : Component(self, i) = Component(base, p[i])
    /\ op = "swap" =>
          LET a == arg[1]
              b == arg[2]
          IN  /\ out.ok = (a < 4 /\ b < 4)
              /\ ~out.ok => self = prev
              /\ out.ok =>
                    /\ Component(self, a) = Component(prev, b)
                    /\ Component(self, b) = Component(prev, a)
                    /\ \A j \in 0 .. 3 :
                          j # a /\ j # b => Component(self, j) = Component(prev, j)
                    /\ a = b => self = prev
                    /\ swap(self, a, b) = Done(prev)

\* Two swaps in a row that moved components and did not restore the vector.
SwapExchangesWitness ==
    /\ op = "swap"
    /\ out.ok
    /\ nops = 2
    /\ self # prev
    /\ prev # base
    /\ self # base


\* The scalar v equals itself under ==: every scalar but a floating NaN.
SelfEqual(k, v) == SEq(k, v, v)

\* C4 as it is stated: for every scalar kind and every value v,
\* from_value(v)[i] == v at every valid index i, and
\* from_value(v) == new(v, v, v, v).
FromValueEqualsEverywhere ==
    op = "from_value" =>
        /\ \A i \in 0 .. 3 :
              index(out.val, i).ok /\ SEq(kind, index(out.val, i).val, arg[1])
        /\ eq(kind, out.val, new(arg[1], arg[1], arg[1], arg[1]))

\* C4, amended: from_value(v) holds a copy of v at every valid index, as
\* new(v, v, v, v) does; from_value(v)[i] == v and
\* from_value(v) == new(v, v, v, v) hold exactly when v == v, that is for
\* every v but a floating NaN.
FromValueCopiesEverywhere ==
    op = "from_value" =>
        /\ \A i \in 0 .. 3 : index(out.val, i) = Ok(arg[1])
        /\ \A i \in 0 .. 3 :
              SEq(kind, index(out.val, i).val, arg[1]) = SelfEqual(kind, arg[1])
        /\ eq(kind, out.val, new(arg[1], arg[1], arg[1], arg[1]))
              = SelfEqual(kind, arg[1])

\* A floating vector built by from_value from a value that is not NaN.
FromValueCopiesEverywhereWitness ==
    /\ op = "from_value"
    /\ kind = "float"
    /\ arg[1] = FMax
    /\ eq(kind, out.val, new(FMax, FMax, FMax, FMax))

HasNaN(k, v) == \E i \in 0 .. 3 : ~SelfEqual(k, Component(v, i))

\* The vectors a run of the value-returning operations compares self with.
Others == ArgVecs(kind) \cup {self}

\* The parts of C5 that do not depend on reflexivity: == is true iff the
\* four pairs of components compare equal, it agrees with equal(..).all(),
\* and it is symmetric and transitive.
EqIsComponentwise ==
    op = "eq" =>
        /\ out.val = (\A i \in 0 .. 3 :
                         SEq(kind, Component(self, i), Component(arg[1], i)))
        /\ out.val = all(equal(kind, self, arg[1]))
        /\ out.val = eq(kind, arg[1], self)
        /\ \A c \in Others :
              out.val /\ eq(kind, arg[1], c) => eq(kind, self, c)

\* C5 as it is stated: structural equality is componentwise, agrees with
\* equal(..).all(), and is reflexive, symmetric and transitive for every
\* scalar kind, floating vectors with a NaN component included.
EqIsEquivalence ==
    /\ EqIsComponentwise
    /\ op = "eq" /\ arg[1] = self => out.val

\* C5, amended: as stated, but a == a holds exactly for the vectors without
\* a NaN component.
EqIsEquivalenceButForNaN ==
    /\ EqIsComponentwise
    /\ op = "eq" /\ arg[1] = self => out.val = ~HasNaN(kind, self)

\* Two floating vectors that are equal without being the same: they differ
\* in the sign of a zero.
EqIsEquivalenceButForNaNWitness ==
    /\ op = "eq"
    /\ kind = "float"
    /\ out.val
    /\ arg[1] # self

\* C6: zero() is the all-zero vector and identity() the all-one vector;
\* is_zero() is true iff each of the four components equals the scalar
\* zero, so zero() is zero, identity() is not, and a vector with a single
\* non-zero component is not.
ZeroIdentityIsZero ==
    /\ op = "zero" =>
          /\ \A i \in 0 .. 3 : index(out.val, i) = Ok(zero_t(kind))
          /\ is_zero(kind, out.val)
    /\ op = "identity" =>
          /\ \A i \in 0 .. 3 : index(out.val, i) = Ok(one_t(kind))
          /\ ~is_zero(kind, out.val)
    /\ op = "is_zero" =>
          out.val = (\A i \in 0 .. 3 : SEq(kind, Component(self, i), zero_t(kind)))

\* is_zero() of a vector whose only non-zero component is the last one.
ZeroIdentityIsZeroWitness ==
    /\ op = "is_zero"
    /\ ~out.val
    /\ \A i \in 0 .. 2 : SEq(kind, Component(self, i), zero_t(kind))

\* C7: over an integer kind, a.add_v(&b) == b.add_v(&a) and
\* a.dot(&b) == b.dot(&a).
AddDotCommute ==
    kind \in IntKinds =>
        /\ op = "add_v" => eq(kind, out.val, add_v(kind, arg[1], self))
        /\ op = "dot" => out.val = dot(kind, arg[1], self)

\* A sum of two different integer vectors in which a component wrapped
\* around: MinInt + (-1) is MaxInt.
AddDotCommuteWitness ==
    /\ op = "add_v"
    /\ kind = "i32"
    /\ self.x = MinInt
    /\ arg[1].x = 0 - 1
    /\ out.val.x = MaxInt
    /\ self # arg[1]

UnitOps == <<"unit_x", "unit_y", "unit_z", "unit_w">>

AllFinite(k, v) ==
    k = "float" => \A i \in 0 .. 3 : FIsFinite(Component(v, i))

\* unit_x, unit_y, unit_z and unit_w have a one at index 0, 1, 2 and 3 and
\* zeros elsewhere, and dot is the sum of the four products.
UnitShapeAndDot ==
    /\ \A n \in 0 .. 3 :
          op = UnitOps[n + 1] =>
              \A i \in 0 .. 3 :
                  index(out.val, i) = Ok(IF i = n THEN one_t(kind) ELSE zero_t(kind))
    /\ op = "dot" =>
          out.val = SAdd(kind, SAdd(kind, SAdd(kind,
                        SMul(kind, self.x, arg[1].x), SMul(kind, self.y, arg[1].y)),
                        SMul(kind, self.z, arg[1].z)), SMul(kind, self.w, arg[1].w))

\* C8 as it is stated: for every numeric v, v.dot(&unit_k) == v[k].
DotUnitSelects ==
    /\ UnitShapeAndDot
    /\ \A n \in 0 .. 3 :
          op = UnitOps[n + 1] =>
              SEq(kind, dot(kind, self, out.val), Component(self, n))

\* C8, amended: v.dot(&unit_k) == v[k] for every numeric v whose components
\* are all finite, which every integer vector is.
DotUnitSelectsFinite ==
    /\ UnitShapeAndDot
    /\ \A n \in 0 .. 3 :
          op = UnitOps[n + 1] /\ AllFinite(kind, self) =>
              SEq(kind, dot(kind, self, out.val), Component(self, n))

\* The dot product of a finite floating vector with unit_w, which selects
\* a last component that is not zero.
DotUnitSelectsFiniteWitness ==
    /\ op = "unit_w"
    /\ kind = "float"
    /\ AllFinite(kind, self)
    /\ self.w = FMax
    /\ dot(kind, self, out.val) = FMax


NegOps == {"neg", "neg_self"}

\* Negation is component-wise scalar negation, and the vectors of the
\* other capabilities keep them: a uvec4 has zero, identity, the arithmetic
\* and dot, a bvec4 has any, all and not.
NegIsComponentwise ==
    /\ op = "neg" =>
          \A i \in 0 .. 3 :
              Component(out.val, i) = SNeg(kind, Component(self, i))
    /\ op = "neg_self" =>
          /\ out.ok
          /\ \A i \in 0 .. 3 :
                Component(self, i) = SNeg(kind, Component(prev, i))
    /\ kind = "u32" /\ op = "new" =>
          /\ ENABLED Zero /\ ENABLED Identity /\ ENABLED Dot
          /\ ENABLED AddV /\ ENABLED SubV /\ ENABLED MulV /\ ENABLED DivV
          /\ ENABLED MulT /\ ENABLED DivT
          /\ ENABLED AddSelfV /\ ENABLED MulSelfT
    /\ kind = "bool" /\ op = "new" =>
          ENABLED Any /\ ENABLED All /\ ENABLED Not

\* C9 as it is stated: only signed-integer and floating vectors have neg
\* and neg_self; boolean and unsigned-integer vectors have neither.
NegOnlySignedOrFloat ==
    /\ NegIsComponentwise
    /\ op \in NegOps => kind \in {"i32", "float"}

\* C9, amended: every numeric vector has neg and neg_self, the signed, the
\* unsigned (where it is the negation modulo 2^32) and the floating ones;
\* only boolean vectors have neither.  (What a vector can do depends on
\* its kind alone, so it is read off the vector as constructed.)
NegOnlyNumeric ==
    /\ NegIsComponentwise
    /\ op \in NegOps => kind \in {"i32", "u32", "float"}
    /\ op = "new" =>
          /\ (ENABLED Neg) = (kind # "bool")
          /\ (ENABLED NegSelf) = (kind # "bool")

\* An unsigned vector negated in place: 2 became 2^32 - 2.
NegOnlyNumericWitness ==
    /\ op = "neg_self"
    /\ kind = "u32"
    /\ prev.z = 2
    /\ self.z = 0 - 2

\* The difference b - a of two floating scalars is finite.
SubFinite(a, b) ==
    FIsFinite(a) /\ FIsFinite(b) /\ FIsFinite(FSub(b, a))

\* The difference b - a of two floating scalars is computed without
\* rounding: the exact difference is a value of the format.
SubExact(a, b) ==
    /\ FIsFinite(a)
    /\ FIsFinite(b)
    /\ Mag(FSigned(b) - FSigned(a)) \in FMags

\* lerp is self + (other - self) * amount in each component, whatever
\* amount is.
LerpIsComponentwise ==
    op = "lerp" =>
        \A i \in 0 .. 3 :
            Component(out.val, i) =
                SAdd(kind, Component(self, i),
                     SMul(kind, SSub(kind, Component(arg[1], i), Component(self, i)),
                          arg[2]))

\* C10 as it is stated: for all a and b, a.lerp(&b, 0) == a and
\* a.lerp(&b, 1) == b.
LerpReturnsEndpoints ==
    /\ LerpIsComponentwise
    /\ op = "lerp" /\ arg[2] = zero_t(kind) => eq(kind, out.val, self)
    /\ op = "lerp" /\ arg[2] = one_t(kind) => eq(kind, out.val, arg[1])

\* C10, amended: a.lerp(&b, 0) == a when the components of a and b are
\* finite and no difference b - a overflows, and a.lerp(&b, 1) == b when
\* every difference b - a is computed exactly.
LerpReturnsEndpointsWhenExact ==
    /\ LerpIsComponentwise
    /\ op = "lerp" /\ arg[2] = zero_t(kind)
          /\ (\A i \in 0 .. 3 : SubFinite(Component(self, i), Component(arg[1], i)))
          => eq(kind, out.val, self)
    /\ op = "lerp" /\ arg[2] = one_t(kind)
          /\ (\A i \in 0 .. 3 : SubExact(Component(self, i), Component(arg[1], i)))
          => eq(kind, out.val, arg[1])

\* An interpolation at 1 between two different vectors whose differences
\* are exact, which returned the second.
LerpReturnsEndpointsWhenExactWitness ==
    /\ op = "lerp"
    /\ arg[2] = FOne
    /\ \A i \in 0 .. 3 : SubExact(Component(self, i), Component(arg[1], i))
    /\ \A i \in 0 .. 3 : ~FEq(Component(self, i), Component(arg[1], i))
    /\ eq(kind, out.val, arg[1])

\* fuzzy_eq_eps is true iff each of the four component pairs is within eps
\* under the scalar's fuzzy comparison, and fuzzy_eq is fuzzy_eq_eps with
\* the default tolerance.
FuzzyIsComponentwise ==
    /\ op = "fuzzy_eq_eps" =>
          out.val = (\A i \in 0 .. 3 :
                        scalar_fuzzy_eq_eps(Component(self, i),
                                            Component(arg[1], i), arg[2]))
    /\ op = "fuzzy_eq" =>
          out.val = (\A i \in 0 .. 3 :
                        scalar_fuzzy_eq_eps(Component(self, i),
                                            Component(arg[1], i), FUZZY_EPSILON))

\* C11 as it is stated: v.fuzzy_eq(&v) is true for every floating v.
FuzzyEqReflexive ==
    /\ FuzzyIsComponentwise
    /\ op = "fuzzy_eq" /\ arg[1] = self => out.val

\* C11, amended: v.fuzzy_eq(&v) is true exactly for the floating v whose
\* four components are finite; a NaN or an infinite component is not within
\* any tolerance of itself.
FuzzyEqReflexiveWhenFinite ==
    /\ FuzzyIsComponentwise
    /\ op = "fuzzy_eq" /\ arg[1] = self => out.val = AllFinite(kind, self)

\* A finite floating vector with a component that is not zero, compared
\* with itself.
FuzzyEqReflexiveWhenFiniteWitness ==
    /\ op = "fuzzy_eq"
    /\ arg[1] = self
    /\ AllFinite(kind, self)
    /\ self.w = FMax
    /\ out.val

\* Each comparison returns the Vec4<bool> of the four scalar comparisons
\* of self[i] with other[i].
ComparesPairwise(r, Cmp(_, _)) ==
    \A i \in 0 .. 3 :
        Component(r, i) = Cmp(Component(self, i), Component(arg[1], i))

\* C12: over an ordered scalar kind, less_than, less_than_equal,
\* greater_than, greater_than_equal, equal and not_equal each return the
\* vector whose component i is the scalar comparison of a[i] with b[i];
\* a.less_than(&b) == b.greater_than(&a),
\* a.less_than_equal(&b) == b.greater_than_equal(&a) and
\* a.not_equal(&b) == a.equal(&b).not().
ComparisonsArePairwise ==
    kind \in OrdKinds =>
        /\ op = "less_than" =>
              /\ ComparesPairwise(out.val, LAMBDA a, b : SLt(kind, a, b))
              /\ out.val = greater_than(kind, arg[1], self)
        /\ op = "less_than_equal" =>
              /\ ComparesPairwise(out.val, LAMBDA a, b : SLe(kind, a, b))
              /\ out.val = greater_than_equal(kind, arg[1], self)
        /\ op = "greater_than" =>
              /\ ComparesPairwise(out.val, LAMBDA a, b : SGt(kind, a, b))
              /\ out.val = less_than(kind, arg[1], self)
        /\ op = "greater_than_equal" =>
              /\ ComparesPairwise(out.val, LAMBDA a, b : SGe(kind, a, b))
              /\ out.val = less_than_equal(kind, arg[1], self)
        /\ op = "equal" =>
              ComparesPairwise(out.val, LAMBDA a, b : SEq(kind, a, b))
        /\ op = "not_equal" =>
              /\ ComparesPairwise(out.val, LAMBDA a, b : ~SEq(kind, a, b))
              /\ out.val = not(equal(kind, self, arg[1]))

\* An unsigned comparison that is true in the first component (1 is below
\* 2^32 - 1) and not in every component.
ComparisonsArePairwiseWitness ==
    /\ op = "less_than"
    /\ kind = "u32"
    /\ self.x = 1
    /\ arg[1].x = 0 - 1
    /\ out.val.x
    /\ ~all(out.val)

\* C13: for every Vec4<bool> v, any() is the logical-or and all() the
\* logical-and of the four components, and not() is the component-wise
\* complement; so v.not().not() == v, v.not().any() == !v.all() and
\* v.not().all() == !v.any().
BoolReductions ==
    kind = "bool" =>
        /\ op = "any" => out.val = (\E i \in 0 .. 3 : Component(self, i))
        /\ op = "all" => out.val = (\A i \in 0 .. 3 : Component(self, i))
        /\ op = "not" =>
              /\ \A i \in 0 .. 3 :
                    Component(out.val, i) = ~Component(self, i)
              /\ eq(kind, not(out.val), self)
              /\ any(out.val) = ~all(self)
              /\ all(out.val) = ~any(self)

\* any() of a vector whose only true component is the last one: any() is
\* true and all() is false.
BoolReductionsWitness ==
    /\ op = "any"
    /\ kind = "bool"
    /\ self = new(FALSE, FALSE, FALSE, TRUE)
    /\ out.val
    /\ ~all(self)

\* C14: lerp_self(b, t) leaves self as a.lerp(&b, t), normalize_self as
\* a.normalize() and normalize_self_to(len) as a.normalize_to(len), where a
\* is self as it was before, for all a, b, t and len: the in-place form
\* completes, and each component it leaves is the one the value form
\* returns (a NaN where the value form returns a NaN).
EuclidInPlaceEqualsValue ==
    /\ op = "lerp_self" =>
          out.ok /\ self = lerp(kind, prev, arg[1], arg[2])
    /\ op = "normalize_self" =>
          out.ok /\ self = normalize(kind, prev)
    /\ op = "normalize_self_to" =>
          out.ok /\ self = normalize_to(kind, prev, arg[1])

\* A vector of finite length that normalize_self scaled: the scale factor
\* is not one, and the length of the vector left differs from the length
\* before.
EuclidInPlaceEqualsValueWitness ==
    /\ op = "normalize_self"
    /\ AllFinite(kind, prev)
    /\ AllFinite(kind, self)
    /\ FIsFinite(length(kind, prev))
    /\ length(kind, prev) # length(kind, self)
    /\ prev.x # self.x

\* C15: over an integer kind, div_self_v(b) fails iff div_v(b) fails, as
\* both do when a component of b is zero, and div_self_t(s) fails iff
\* div_t(s) fails, as both do when s is zero; and when the in-place form
\* fails, no component of self has been modified, whichever component of b
\* holds the zero.
DivByZeroLeavesSelf ==
    kind \in IntKinds =>
        /\ op = "div_self_v" =>
              /\ out.ok = div_v(kind, prev, arg[1], arg[2]).ok
              /\ (\E i \in 0 .. 3 : Component(arg[1], i) = 0) => ~out.ok
              /\ ~out.ok => self = prev
        /\ op = "div_self_t" =>
              /\ out.ok = div_t(kind, prev, arg[1], arg[2]).ok
              /\ arg[1] = 0 => ~out.ok
              /\ ~out.ok => self = prev


====
